---- MODULE Spec2Model ----
(***************************************************************************)
(* Model of the polling scheduler of CROSS-LINK-ACCESS-APP                 *)
(* (src/src/services/scheduler.ts) together with the part of the post      *)
(* store it reads and writes (src/src/stores/postStore.ts) and the retry   *)
(* helpers of src/src/lib/errors.ts.                                       *)
(*                                                                         *)
(* JavaScript runs one task at a time.  Every action below is one          *)
(* run-to-suspension segment of the code.  A suspension on an already      *)
(* settled promise is a microtask: the microtasks run in the order they    *)
(* were queued, before any timer callback, and a caller's code gets in     *)
(* between them when it runs in the same block as the call that queued     *)
(* them or in a microtask of its own.  A suspension on setTimeout resumes  *)
(* POST_DELAY_MS later, in the order the timeouts were set.                *)
(***************************************************************************)
EXTENDS Integers, Sequences, FiniteSets

\* ---- bounds of the model ------------------------------------------------
MaxJobs == 2
MaxTicks == 2
MaxIntervals == 1
NumTargets == 2
MaxStoredTargets == 1
MaxAttempt == 5

\* ---- program constants --------------------------------------------------
CHECK_INTERVAL_MS == 30000
RETRY_DELAY_MS == 300000
POST_DELAY_MS == 1000
DEFAULT_MAX_RETRIES == 3
BASE_DELAY_MS == 1000
MAX_DELAY_MS == 30000
JITTER_MS == 1000
WITH_RETRY_MAX == 3

MaxTime == MaxIntervals * CHECK_INTERVAL_MS

JobIds == 1..MaxJobs
TickIds == 1..MaxTicks
NULL == 0
TimerHandles == 1..2

\* ids of the posts a caller builds, adds to the post store and hands to
\* schedulePost
PostIds == {"p1", "p2"}

\* the ids of the posts that are added to the post store: a job of any other
\* post finds no post
NewPostIds == {"p1"}

\* a post object without the field crossPostTargets, as the type Post
\* declares it
Undefined == -1

\* post.crossPostTargets of the posts a caller builds: no such field, or a
\* list of 0..NumTargets targets (the length of the list)
TargetLists == {Undefined} \cup (0..NumTargets)

\* the targets of a list of n targets
crossPostTargets(n) == 1..n

\* the message of the TypeError thrown by the for-of over an undefined value
NotIterable == "post.crossPostTargets is not iterable"

\* What the dispatch of a target throws when it throws: an Error, whose
\* message is recorded, or a value that is not an Error, recorded as
\* 'Unknown error'.
ErrorMessages == {"NETWORK_ERROR", "VALIDATION_ERROR", "Unknown error"}

\* createError: the codes that are retryable by default
retryableCodes == {"NETWORK_ERROR", "RATE_LIMITED", "PLATFORM_ERROR"}

VARIABLES
    jobs,           \* job objects by id (also those deleted from the Map)
    store,          \* keys of SchedulerService.jobs (the Map)
    posts,          \* usePostStore.posts: by id, the status of the post and
                    \* its crossPostTargets; status "absent" if not stored
    added,          \* history: the ids addPost has been called with
    isRunning,      \* SchedulerService.isRunning
    checkInterval,  \* SchedulerService.checkInterval (NULL or a timer handle)
    timerDue,       \* the interval timers of the window: per handle, the
                    \* time its callback is next due, NULL if not armed
    now,            \* the clock read by new Date() and Date.now()
    ticks,          \* in-flight processScheduledPosts invocations; with the
                    \* call of executeJob that has just returned, the job
                    \* and the post status it found (history)
    microtasks,     \* the invocations suspended on a settled promise, in
                    \* the order their continuations were queued
    timeouts,       \* the invocations suspended on setTimeout, in the order
                    \* the timeouts were set, each with the time it is due
    ret,            \* the cancelScheduledPost call that has just returned:
                    \* its argument, its result and the status the job had
    cancelled,      \* history: ids for which cancelScheduledPost returned true
    delivered,      \* history: per job, the targets delivered with success
    limits,         \* RateLimitTracker.limits: per platform, no record or
                    \* the remaining calls and the reset time
    targetStore,    \* usePostStore.crossPostTargets, by target id
    out,            \* the library call that has just returned: its
                    \* arguments, its result and the state it found
    retry           \* the withRetry invocation: its position, its loop
                    \* variables, and (history) the calls of fn, the
                    \* arguments of onRetry and the number of waits

\* the state outside the scheduler: the rate limit tracker, the targets and
\* the retry helper
libvars == <<limits, targetStore, out, retry>>

vars == <<jobs, store, posts, added, isRunning, checkInterval, timerDue, now,
          ticks, microtasks, timeouts, ret, cancelled, delivered, limits,
          targetStore, out, retry>>

NoJob == [postId |-> "none", scheduledAt |-> 0, status |-> "none",
          retryCount |-> 0, maxRetries |-> 0, lastError |-> "none"]

\* no post under an id
NoPost == [status |-> "absent", crossPostTargets |-> Undefined]

Idle == [pc |-> "idle", snap |-> <<>>, idx |-> 0, targets |-> 0,
         results |-> <<>>, err |-> "none",
         before |-> NoJob, postBefore |-> "none"]

NoCall == [jobId |-> 0, value |-> FALSE, was |-> "none"]

\* A Date that is not a valid instant (its time value is NaN): every
\* comparison with it is false and toISOString() throws a RangeError.
InvalidDate == -1
validDate(d) == d # InvalidDate

\* PlatformType: the platforms whose quota the tracker is told about
Platforms == {"bluesky", "threads"}

\* no entry in RateLimitTracker.limits
NoLimit == [remaining |-> -1, resetAt |-> -1]

\* ids of the CrossPostTarget objects a caller adds to the store
TargetIds == 1..MaxStoredTargets

\* no CrossPostTarget under an id
NoTarget == [postId |-> "none", status |-> "none", platformPostId |-> "none",
             errorCode |-> "none"]

\* no library call has just returned
NoOut == [op |-> "none"]

\* no AppError
NoError == [code |-> "none", retryable |-> FALSE]

\* withRetry has not been called
NoRetry == [pc |-> "idle", maxRetries |-> 0, attempt |-> 0, calls |-> 0,
            onRetry |-> <<>>, waits |-> 0, lastError |-> NoError]

created == {j \in JobIds : jobs[j] # NoJob}

\* The job an invocation is executing
CurJob(t) == ticks[t].snap[ticks[t].idx]

\* the armed interval timers, and those whose callback is due
timers == {h \in TimerHandles : timerDue[h] # NULL}
fired == {h \in timers : timerDue[h] <= now}

\* An invocation is suspended on a settled promise: the microtasks run
\* before any timer callback.
MicroPcs == {"results", "catch", "next"}
MicroPending == microtasks # <<>>

\* the continuation of invocation t is the next microtask
Resumes(t) == microtasks # <<>> /\ Head(microtasks) = t

Init ==
    /\ jobs = [j \in JobIds |-> NoJob]
    /\ store = {}
    /\ posts = [p \in PostIds |-> NoPost]
    /\ added = {}
    /\ isRunning = FALSE
    /\ checkInterval = NULL
    /\ timerDue = [h \in TimerHandles |-> NULL]
    /\ now = 0
    /\ ticks = [t \in TickIds |-> Idle]
    /\ microtasks = <<>>
    /\ timeouts = <<>>
    /\ ret = NoCall
    /\ cancelled = {}
    /\ delivered = [j \in JobIds |-> {}]
    /\ limits = [pf \in Platforms |-> NoLimit]
    /\ targetStore = [id \in TargetIds |-> NoTarget]
    /\ out = NoOut
    /\ retry = NoRetry

\* ---- queries ------------------------------------------------------------

\* getScheduledJobs
getScheduledJobs == {j \in store : jobs[j].status = "pending"}

\* isActive(): the running flag
isActive == isRunning

\* getPendingCount
getPendingCount == Cardinality({j \in store : jobs[j].status = "pending"})

\* the filter of processScheduledPosts, in Map (insertion) order
IsDue(j, asOf) ==
    /\ j \in store
    /\ jobs[j].status = "pending"
    /\ validDate(jobs[j].scheduledAt)
    /\ jobs[j].scheduledAt <= asOf
duePosts(asOf) == SelectSeq([i \in 1..MaxJobs |-> i], LAMBDA j : IsDue(j, asOf))

\* ---- the posts of the post store ----------------------------------------

Stored(p) == posts[p].status # "absent"

\* updatePost: maps over the stored posts, so an absent post stays absent
updatePost(P, p, status) ==
    IF P[p].status = "absent" THEN P ELSE [P EXCEPT ![p].status = status]

allSuccess(results) == \A i \in 1..Len(results) : results[i] = "ok"
anySuccess(results) == \E i \in 1..Len(results) : results[i] = "ok"

\* ---- executeJob ---------------------------------------------------------

\* checkResults with the partial branch lost: a mixed result is thrown like
\* a failure of every target
checkResultsNoPartial(results) ==
    IF allSuccess(results)
    THEN [status |-> "completed", post |-> "posted", throws |-> "none"]
    ELSE [status |-> "processing", post |-> "posting", throws |-> "All platforms failed"]

\* The decision of executeJob once the results are in: the job status it
\* sets, the post status it persists, or the error it throws.
checkResults(results) ==
    IF allSuccess(results)
    THEN [status |-> "completed", post |-> "posted", throws |-> "none"]
    ELSE IF anySuccess(results)
    THEN [status |-> "completed", post |-> "partial", throws |-> "none"]
    ELSE [status |-> "processing", post |-> "posting", throws |-> "All platforms failed"]

\* catchJob with the retry delay lost: the job is due again at once
catchJobNoDelay(job, err, clock) ==
    LET n == job.retryCount + 1 IN
    IF n >= job.maxRetries
    THEN [job EXCEPT !.retryCount = n, !.lastError = err, !.status = "failed"]
    ELSE [job EXCEPT !.retryCount = n, !.lastError = err, !.status = "pending",
                     !.scheduledAt = clock]

\* The catch block of executeJob, applied to the job object at time clock
catchJob(job, err, clock) ==
    LET n == job.retryCount + 1 IN
    IF n >= job.maxRetries
    THEN [job EXCEPT !.retryCount = n, !.lastError = err, !.status = "failed"]
    ELSE [job EXCEPT !.retryCount = n, !.lastError = err, !.status = "pending",
                     !.scheduledAt = clock + RETRY_DELAY_MS]

\* the post store after the catch block has run for a job of post p
catchPost(P, p, after) ==
    IF after.status = "failed" THEN updatePost(P, p, "failed") ELSE P

\* An invocation suspends: on a settled promise its continuation is queued
\* behind the microtasks mq, on setTimeout its timeout is set behind the
\* timeouts tq.
Suspend(t, mq, tq) ==
    /\ microtasks' = IF ticks'[t].pc \in MicroPcs THEN Append(mq, t) ELSE mq
    /\ timeouts' = IF ticks'[t].pc = "dispatch"
                   THEN Append(tq, [tick |-> t, at |-> now + POST_DELAY_MS])
                   ELSE tq

\* executeJob up to its first suspension, run by invocation t on snap[idx]:
\* mark the job processing and look the post up.  With no such post the
\* catch block runs at once and executeJob returns.  Else mark the post
\* posting and call executePostToAllTargets with the post object: the for-of
\* throws if the object has no crossPostTargets, returns at once if the list
\* is empty, and else waits for the first target's timeout.
BeginJob(t, snap, idx) ==
    LET j == snap[idx]
        p == jobs[j].postId
        found == [jobs[j] EXCEPT !.status = "processing"]
        rec(pc, err, before, postBefore) ==
            [pc |-> pc, snap |-> snap, idx |-> idx,
             targets |-> IF posts[p].crossPostTargets = Undefined
                         THEN 0 ELSE posts[p].crossPostTargets,
             results |-> <<>>, err |-> err,
             before |-> before, postBefore |-> postBefore]
    IN  IF posts[p].status = "absent"
        THEN LET after == catchJob(found, "Post not found", now) IN
             /\ jobs' = [jobs EXCEPT ![j] = after]
             /\ posts' = catchPost(posts, p, after)
             /\ ticks' = [ticks EXCEPT ![t] =
                     rec("next", "Post not found", found, posts[p].status)]
        ELSE /\ jobs' = [jobs EXCEPT ![j] = found]
             /\ posts' = updatePost(posts, p, "posting")
             /\ ticks' = [ticks EXCEPT ![t] =
                     IF posts[p].crossPostTargets = Undefined
                     THEN rec("catch", NotIterable, NoJob, "none")
                     ELSE IF crossPostTargets(posts[p].crossPostTargets) = {}
                     THEN rec("results", "none", NoJob, "none")
                     ELSE rec("dispatch", "none", NoJob, "none")]

\* processScheduledPosts with the scan lost: nothing is looked at
processScheduledPostsNoScan == UNCHANGED <<jobs, posts, ticks, microtasks, timeouts>>

\* processScheduledPosts up to its first suspension: snapshot the due jobs
\* and start executing the first one.
processScheduledPosts ==
    LET snap == duePosts(now) IN
    IF snap = <<>>
    THEN UNCHANGED <<jobs, posts, ticks, microtasks, timeouts>>
    ELSE \E t \in TickIds :
            /\ ticks[t].pc = "idle"
            /\ \A u \in TickIds : u < t => ticks[u].pc # "idle"
            /\ BeginJob(t, snap, 1)
            /\ Suspend(t, microtasks, timeouts)

\* loopPc with the per-target try/catch lost: a failed target ends the loop
loopPcAbort(results, total) ==
    IF Len(results) = total \/ results[Len(results)] # "ok"
    THEN "results" ELSE "dispatch"

\* The for loop of executePostToAllTargets after a result has been pushed:
\* it goes on to the next target, or returns the results after the last one.
loopPc(results, total) == IF Len(results) = total THEN "results" ELSE "dispatch"

\* executePostToAllTargets: the timeout of the next target is due; the
\* dispatch returns or throws, the result is pushed, and the loop sets the
\* timeout of the following target or returns the results.
DispatchTarget(t, outcome) ==
    /\ ~MicroPending
    /\ timeouts # <<>>
    /\ Head(timeouts).tick = t
    /\ Head(timeouts).at <= now
    /\ ticks[t].pc = "dispatch"
    /\ LET j == CurJob(t)
           k == Len(ticks[t].results) + 1
           pushed == Append(ticks[t].results, outcome)
       IN  /\ ticks' = [ticks EXCEPT ![t].results = pushed,
                                     ![t].pc = loopPc(pushed, ticks[t].targets)]
           /\ delivered' = IF outcome = "ok"
                           THEN [delivered EXCEPT ![j] = @ \cup {k}]
                           ELSE delivered
    /\ Suspend(t, microtasks, Tail(timeouts))
    /\ ret' = NoCall
    /\ UNCHANGED libvars
    /\ UNCHANGED <<jobs, store, posts, added, isRunning,
                   checkInterval, timerDue, now, cancelled>>

\* executeJob after executePostToAllTargets has returned: the job is
\* completed, or 'All platforms failed' is thrown and the catch block runs
CheckResults(t) ==
    /\ Resumes(t)
    /\ ticks[t].pc = "results"
    /\ LET j == CurJob(t)
           p == jobs[j].postId
           d == checkResults(ticks[t].results)
           after == catchJob(jobs[j], d.throws, now)
       IN  /\ IF d.throws = "none"
              THEN /\ jobs' = [jobs EXCEPT ![j].status = d.status]
                   /\ posts' = updatePost(posts, p, d.post)
              ELSE /\ jobs' = [jobs EXCEPT ![j] = after]
                   /\ posts' = catchPost(posts, p, after)
           /\ ticks' = [ticks EXCEPT ![t].pc = "next",
                                     ![t].err = d.throws,
                                     ![t].before = jobs[j],
                                     ![t].postBefore = posts[p].status]
    /\ Suspend(t, Tail(microtasks), timeouts)
    /\ ret' = NoCall
    /\ UNCHANGED libvars
    /\ UNCHANGED <<store, added, isRunning, checkInterval, timerDue,
                   now, cancelled, delivered>>

\* the catch block of executeJob, entered from the rejected promise of
\* executePostToAllTargets
CatchBlock(t) ==
    /\ Resumes(t)
    /\ ticks[t].pc = "catch"
    /\ LET j == CurJob(t)
           p == jobs[j].postId
           after == catchJob(jobs[j], ticks[t].err, now)
       IN  /\ jobs' = [jobs EXCEPT ![j] = after]
           /\ posts' = catchPost(posts, p, after)
           /\ ticks' = [ticks EXCEPT ![t].pc = "next",
                                     ![t].before = jobs[j],
                                     ![t].postBefore = posts[p].status]
    /\ Suspend(t, Tail(microtasks), timeouts)
    /\ ret' = NoCall
    /\ UNCHANGED libvars
    /\ UNCHANGED <<store, added, isRunning, checkInterval, timerDue,
                   now, cancelled, delivered>>

\* loopDone with the failure of a job thrown out of the loop
loopDoneOnError(tk) == tk.idx = Len(tk.snap) \/ tk.err # "none"

\* the for loop of processScheduledPosts has no job left in its snapshot
loopDone(tk) == tk.idx = Len(tk.snap)

\* the for loop of processScheduledPosts after executeJob has returned
NextJob(t) ==
    /\ Resumes(t)
    /\ ticks[t].pc = "next"
    /\ IF loopDone(ticks[t])
       THEN /\ ticks' = [ticks EXCEPT ![t] = Idle]
            /\ UNCHANGED <<jobs, posts>>
       ELSE BeginJob(t, ticks[t].snap, ticks[t].idx + 1)
    /\ Suspend(t, Tail(microtasks), timeouts)
    /\ ret' = NoCall
    /\ UNCHANGED libvars
    /\ UNCHANGED <<store, added, isRunning, checkInterval, timerDue,
                   now, cancelled, delivered>>

\* ---- the control API ----------------------------------------------------

\* start without its guard on isRunning: every call arms a timer and scans
startUnguarded ==
    /\ isRunning' = TRUE
    /\ \E h \in TimerHandles :
          /\ h \notin timers
          /\ \A g \in TimerHandles : g < h => g \in timers
          /\ timerDue' = [timerDue EXCEPT ![h] = now + CHECK_INTERVAL_MS]
          /\ checkInterval' = h
    /\ processScheduledPosts
    /\ ret' = NoCall
    /\ UNCHANGED libvars
    /\ UNCHANGED <<store, added, now, cancelled, delivered>>

\* start: a no-op when already running, else arm the timer and scan at once
start ==
    /\ IF isRunning
       THEN UNCHANGED <<isRunning, checkInterval, timerDue, jobs, posts, ticks,
                        microtasks, timeouts>>
       ELSE /\ isRunning' = TRUE
            /\ \E h \in TimerHandles :
                  /\ h \notin timers
                  /\ \A g \in TimerHandles : g < h => g \in timers
                  /\ timerDue' = [timerDue EXCEPT ![h] = now + CHECK_INTERVAL_MS]
                  /\ checkInterval' = h
            /\ processScheduledPosts
    /\ ret' = NoCall
    /\ UNCHANGED libvars
    /\ UNCHANGED <<store, added, now, cancelled, delivered>>

\* stop: clear the interval timer and the flag
stop ==
    /\ timerDue' = IF checkInterval # NULL
                   THEN [timerDue EXCEPT ![checkInterval] = NULL]
                   ELSE timerDue
    /\ checkInterval' = NULL
    /\ isRunning' = FALSE
    /\ ret' = NoCall
    /\ UNCHANGED libvars
    /\ UNCHANGED <<jobs, store, posts, added, now, ticks, microtasks,
                   timeouts, cancelled, delivered>>

\* the callback of setInterval, due again one interval later
TimerFire(h) ==
    /\ ~MicroPending
    /\ h \in fired
    /\ timerDue' = [timerDue EXCEPT ![h] = @ + CHECK_INTERVAL_MS]
    /\ processScheduledPosts
    /\ ret' = NoCall
    /\ UNCHANGED libvars
    /\ UNCHANGED <<store, added, isRunning, checkInterval,
                   now, cancelled, delivered>>

\* schedulePost: the job is built under a new id and stored, then the log
\* line formats the due time with toISOString(), which throws if the Date is
\* invalid; the report of the throw names the job the call had built.
schedulePost(p, scheduledAt) ==
    /\ \E id \in JobIds :
          /\ id \notin created
          /\ \A i \in JobIds : i < id => i \in created
          /\ jobs' = [jobs EXCEPT ![id] =
                  [postId |-> p, scheduledAt |-> scheduledAt, status |-> "pending",
                   retryCount |-> 0, maxRetries |-> DEFAULT_MAX_RETRIES,
                   lastError |-> "none"]]
          /\ store' = store \cup {id}
          /\ out' = IF validDate(scheduledAt) THEN NoOut
                    ELSE [op |-> "schedulePost", threw |-> "RangeError",
                          job |-> id]
    /\ ret' = NoCall
    /\ UNCHANGED <<limits, targetStore, retry>>
    /\ UNCHANGED <<posts, added, isRunning, checkInterval, timerDue,
                   now, ticks, microtasks, timeouts, cancelled, delivered>>

\* the status of the job the Map holds under jobId
statusInStore(jobId) == IF jobId \in store THEN jobs[jobId].status ELSE "unknown"

\* cancellable with the status test lost
cancellableAnyStatus(jobId) == jobId \in store

\* the test of cancelScheduledPost
cancellable(jobId) == jobId \in store /\ jobs[jobId].status = "pending"

\* deleteJob with the delete lost
deleteJobKeeps(jobId) == store

\* the Map after cancelScheduledPost has deleted jobId
deleteJob(jobId) == store \ {jobId}

cancelScheduledPost(jobId) ==
    /\ IF cancellable(jobId)
       THEN /\ store' = deleteJob(jobId)
            /\ ret' = [jobId |-> jobId, value |-> TRUE, was |-> statusInStore(jobId)]
            /\ cancelled' = cancelled \cup {jobId}
       ELSE /\ ret' = [jobId |-> jobId, value |-> FALSE, was |-> statusInStore(jobId)]
            /\ UNCHANGED <<store, cancelled>>
    /\ UNCHANGED <<jobs, posts, added, isRunning, checkInterval,
                   timerDue, now, ticks, microtasks, timeouts, delivered>>
    /\ UNCHANGED libvars

\* ---- the post store, as its other callers use it ------------------------

\* the scheduler's own state, but for the clock and the last call
jobvars == <<jobs, store, isRunning, checkInterval, timerDue,
             ticks, microtasks, timeouts, cancelled, delivered>>

\* the same with the posts
schedvars == <<jobvars, posts, added>>

\* addPost, with a post object the caller has just built under a new id: a
\* draft whose crossPostTargets is n
addPost(p, n) ==
    /\ p \notin added
    /\ added' = added \cup {p}
    /\ posts' = [posts EXCEPT ![p] = [status |-> "draft",
                                      crossPostTargets |-> n]]
    /\ ret' = NoCall
    /\ UNCHANGED <<jobvars, now>>
    /\ UNCHANGED libvars

\* the targets left when those of post p are filtered out
withoutTargetsOf(T, p) ==
    [id \in TargetIds |-> IF T[id].postId = p THEN NoTarget ELSE T[id]]

\* deletePost: filters the post out, and its targets
deletePost(p) ==
    /\ posts' = [posts EXCEPT ![p] = NoPost]
    /\ targetStore' = withoutTargetsOf(targetStore, p)
    /\ out' = NoOut
    /\ ret' = NoCall
    /\ UNCHANGED <<jobvars, added, now, limits, retry>>
\* ---- RateLimitTracker ---------------------------------------------------

\* RateLimitTracker.update
update(platform, remaining, resetAt) ==
    /\ limits' = [limits EXCEPT ![platform] =
                      [remaining |-> remaining, resetAt |-> resetAt]]
    /\ out' = NoOut
    /\ ret' = NoCall
    /\ UNCHANGED <<schedvars, now, targetStore, retry>>

\* expired with the comparison made strict
expiredStrict(limit, clock) == clock > limit.resetAt

\* the expiry test of canProceed: new Date() >= limit.resetAt
expired(limit, clock) == clock >= limit.resetAt

\* canProceed on the records L at time clock: the value returned and the
\* records left behind
canProceedResult(L, platform, clock) ==
    LET limit == L[platform] IN
    IF limit = NoLimit
    THEN [value |-> TRUE, limits |-> L]
    ELSE IF expired(limit, clock)
    THEN [value |-> TRUE, limits |-> [L EXCEPT ![platform] = NoLimit]]
    ELSE [value |-> limit.remaining > 0, limits |-> L]

\* RateLimitTracker.canProceed
canProceed(platform) ==
    /\ LET r == canProceedResult(limits, platform, now)
       IN  /\ limits' = r.limits
           /\ out' = [op |-> "canProceed", platform |-> platform,
                      value |-> r.value, before |-> limits, at |-> now]
    /\ ret' = NoCall
    /\ UNCHANGED <<schedvars, now, targetStore, retry>>

\* the value of getWaitTime on the records L at time clock
getWaitTimeResult(L, platform, clock) ==
    LET limit == L[platform] IN
    IF limit = NoLimit THEN 0
    ELSE IF clock >= limit.resetAt THEN 0
    ELSE limit.resetAt - clock

\* RateLimitTracker.getWaitTime
getWaitTime(platform) ==
    /\ out' = [op |-> "getWaitTime", platform |-> platform,
               value |-> getWaitTimeResult(limits, platform, now),
               before |-> limits, at |-> now]
    /\ ret' = NoCall
    /\ UNCHANGED <<schedvars, now, limits, targetStore, retry>>

\* ---- the cross-post targets of the post store --------------------------

\* { ...t, ...updates }
merge(t, updates) ==
    [f \in DOMAIN t |-> IF f \in DOMAIN updates THEN updates[f] ELSE t[f]]

\* addCrossPostTarget, with a target of post p the caller has just created
addCrossPostTarget(p) ==
    /\ \E id \in TargetIds :
          /\ targetStore[id] = NoTarget
          /\ \A i \in TargetIds : i < id => targetStore[i] # NoTarget
          /\ targetStore' = [targetStore EXCEPT ![id] =
                  [postId |-> p, status |-> "pending",
                   platformPostId |-> "none", errorCode |-> "none"]]
    /\ out' = NoOut
    /\ ret' = NoCall
    /\ UNCHANGED <<schedvars, now, limits, retry>>

\* updateCrossPostTarget: maps over the stored targets, so an id the store
\* does not hold changes nothing
updateCrossPostTarget(id, updates) ==
    /\ targetStore' = [i \in TargetIds |->
                          IF i = id /\ targetStore[i] # NoTarget
                          THEN merge(targetStore[i], updates)
                          ELSE targetStore[i]]
    /\ out' = NoOut
    /\ ret' = NoCall
    /\ UNCHANGED <<schedvars, now, limits, retry>>

\* ---- withRetry: the backoff ---------------------------------------------

Min(a, b) == IF a <= b THEN a ELSE b

\* delay with the cap lost
delayNoCap(baseDelayMs, maxDelayMs, attempt, jitter) ==
    baseDelayMs * 2^attempt + jitter

\* the delay withRetry waits after the failure of attempt number attempt;
\* jitter is the value of Math.random() * 1000, in whole milliseconds
delay(baseDelayMs, maxDelayMs, attempt, jitter) ==
    Min(baseDelayMs * 2^attempt + jitter, maxDelayMs)

\* withRetry computes the delay before the next attempt
ComputeDelay(baseDelayMs, attempt, jitter) ==
    /\ out' = [op |-> "delay", base |-> baseDelayMs, attempt |-> attempt,
               jitter |-> jitter,
               value |-> delay(baseDelayMs, MAX_DELAY_MS, attempt, jitter)]
    /\ ret' = NoCall
    /\ UNCHANGED <<schedvars, now, limits, targetStore, retry>>

\* ---- parseApiError and withRetry ----------------------------------------

\* createError: retryable is the option given, else the default of the code
createError(code, retryable) ==
    [code |-> code,
     retryable |-> IF retryable = "unset" THEN code \in retryableCodes
                   ELSE retryable = "true"]

\* Values fn may throw: the class of the value (TypeError and Error are both
\* instanceof Error), the status of a Response, and which of the words
\* parseApiError looks for the message holds.
Thrown(class, status, words) == [class |-> class, status |-> status, words |-> words]

\* parseApiError
parseApiError(error) ==
    IF error.class = "TypeError" /\ "fetch" \in error.words
    THEN createError("NETWORK_ERROR", "unset")
    ELSE IF error.class = "Response" /\ error.status = 401
    THEN createError("AUTH_EXPIRED", "unset")
    ELSE IF error.class = "Response" /\ error.status = 429
    THEN createError("RATE_LIMITED", "true")
    ELSE IF error.class = "Response" /\ error.status >= 500
    THEN createError("PLATFORM_ERROR", "true")
    ELSE IF error.class \in {"TypeError", "Error"}
    THEN IF "rate limit" \in error.words
         THEN createError("RATE_LIMITED", "unset")
         ELSE IF "auth" \in error.words
         THEN createError("AUTH_FAILED", "unset")
         ELSE createError("UNKNOWN_ERROR", "unset")
    ELSE createError("UNKNOWN_ERROR", "unset")

\* giveUp with the test of the last attempt off by one
giveUpLate(err, attempt, maxRetries) == ~err.retryable \/ attempt > maxRetries

\* withRetry rethrows: !lastError.retryable || attempt === maxRetries
giveUp(err, attempt, maxRetries) == ~err.retryable \/ attempt = maxRetries

\* a call of withRetry(fn, { maxRetries }): the loop is entered, fn is called
withRetry(maxRetries) ==
    /\ retry.pc \in {"idle", "returned", "thrown"}
    /\ retry' = [NoRetry EXCEPT !.pc = "call", !.maxRetries = maxRetries]
    /\ out' = NoOut
    /\ ret' = NoCall
    /\ UNCHANGED <<schedvars, now, limits, targetStore>>

\* fn() resolves: withRetry returns its value
FnResolves ==
    /\ retry.pc = "call"
    /\ retry' = [retry EXCEPT !.pc = "returned", !.calls = @ + 1]
    /\ out' = NoOut
    /\ ret' = NoCall
    /\ UNCHANGED <<schedvars, now, limits, targetStore>>

\* fn() rejects with error: the catch block of withRetry parses it and
\* rethrows it, or reports the retry and waits for the delay
FnRejects(error, jitter) ==
    /\ retry.pc = "call"
    /\ LET err == parseApiError(error) IN
       IF giveUp(err, retry.attempt, retry.maxRetries)
       THEN /\ retry' = [retry EXCEPT !.pc = "thrown", !.calls = @ + 1,
                                      !.lastError = err]
            /\ out' = NoOut
       ELSE /\ retry' = [retry EXCEPT !.pc = "sleep", !.calls = @ + 1,
                                      !.lastError = err,
                                      !.onRetry = Append(@, retry.attempt + 1),
                                      !.waits = @ + 1]
            /\ out' = [op |-> "delay", base |-> BASE_DELAY_MS,
                       attempt |-> retry.attempt, jitter |-> jitter,
                       value |-> delay(BASE_DELAY_MS, MAX_DELAY_MS,
                                       retry.attempt, jitter)]
    /\ ret' = NoCall
    /\ UNCHANGED <<schedvars, now, limits, targetStore>>

\* the delay has passed: attempt++ and the test of the for loop; after the
\* loop the last error is thrown
Wake ==
    /\ retry.pc = "sleep"
    /\ retry' = [retry EXCEPT !.attempt = @ + 1,
                              !.pc = IF retry.attempt + 1 <= retry.maxRetries
                                     THEN "call" ELSE "thrown"]
    /\ out' = NoOut
    /\ ret' = NoCall
    /\ UNCHANGED <<schedvars, now, limits, targetStore>>

\* ---- time ---------------------------------------------------------------

\* the due times of the stored pending jobs that have one
pendingTimes ==
    {jobs[j].scheduledAt :
        j \in {k \in getScheduledJobs : validDate(jobs[k].scheduledAt)}}

MinOf(S) == CHOOSE s \in S : \A u \in S : s <= u

\* the first time at or after d at which an interval timer next due at due
\* runs its callback
firstFire(due, d) ==
    IF d <= due THEN due
    ELSE due + CHECK_INTERVAL_MS
                 * ((d - due + CHECK_INTERVAL_MS - 1) \div CHECK_INTERVAL_MS)

\* the next instant at which an armed timer runs its callback, or one
\* interval from now if no timer is armed
nextPoll ==
    IF timers = {} THEN now + CHECK_INTERVAL_MS
    ELSE MinOf({timerDue[h] : h \in timers})

\* the due times of the stored pending jobs that are still to come
laterTimes == {s \in pendingTimes : s > now}

\* The next instant at which something happens.  While an invocation waits
\* for a timeout: the time the first timeout or timer callback is due.
\* Else, with no timer armed, the next time a stored pending job becomes due
\* (one interval from now if none is to come).  Else the next polling instant
\* if a stored pending job is due by then (or none is waiting), and otherwise
\* the first polling instant at which a stored pending job is due: the timer
\* callbacks in between find no due job and do nothing.
NextInstant ==
    IF timeouts # <<>>
    THEN MinOf({Head(timeouts).at} \cup {timerDue[h] : h \in timers})
    ELSE IF timers = {}
    THEN IF laterTimes = {} THEN nextPoll ELSE MinOf(laterTimes)
    ELSE IF pendingTimes = {} \/ \E s \in pendingTimes : s <= nextPoll
    THEN nextPoll
    ELSE MinOf({firstFire(timerDue[h], MinOf(pendingTimes)) : h \in timers})

\* nothing is in flight and the passing of time brings nothing about: no
\* timeout is waiting, and no stored pending job is waiting for an armed
\* timer or, with no timer armed, for its due time
Quiet ==
    /\ timeouts = <<>>
    /\ IF timers = {} THEN laterTimes = {} ELSE pendingTimes = {}

\* Time passes to the next instant, once everything due now has run.  Only
\* when the scheduler is quiet does the clock stop at MaxTime.
Advance ==
    /\ ~MicroPending
    /\ fired = {}
    /\ timeouts # <<>> => Head(timeouts).at > now
    /\ Quiet => NextInstant <= MaxTime
    /\ now' = NextInstant
    /\ timerDue' = [h \in TimerHandles |->
                       IF timerDue[h] = NULL THEN NULL
                       ELSE firstFire(timerDue[h], NextInstant)]
    /\ ret' = NoCall
    /\ UNCHANGED libvars
    /\ UNCHANGED <<jobs, store, posts, added, isRunning, checkInterval,
                   ticks, microtasks, timeouts, cancelled, delivered>>

\* The quota a platform service reports to the tracker while the scheduler
\* runs: the first platform has no call left until long after the last retry.
ThrottledPlatforms == {"bluesky"}
QuotaResetAt == 100 * RETRY_DELAY_MS

\* the platform of the k-th target of a post
platformOf(k) == IF k = 1 THEN "bluesky" ELSE "threads"

\* due times a caller asks for: now, or one polling interval from now
ScheduleTimes == {now, now + CHECK_INTERVAL_MS}

\* what the dispatch of a target does: it returns, or throws
Outcomes == {"ok"} \cup ErrorMessages

\* The callers of the scheduler and of the post store act during the first
\* MaxIntervals polling intervals; after that the scheduler runs on its own.
CallerActs == now <= MaxTime

Next ==
    \/ CallerActs /\ start
    \/ CallerActs /\ stop
    \/ \E h \in TimerHandles : TimerFire(h)
    \/ CallerActs /\ \E p \in PostIds, at \in ScheduleTimes : schedulePost(p, at)
    \/ CallerActs /\ \E id \in JobIds : cancelScheduledPost(id)
    \/ CallerActs /\ \E p \in NewPostIds, n \in TargetLists : addPost(p, n)
    \/ CallerActs /\ \E p \in PostIds : deletePost(p)
    \/ \E t \in TickIds, o \in Outcomes : DispatchTarget(t, o)
    \/ \E t \in TickIds : CheckResults(t)
    \/ \E t \in TickIds : CatchBlock(t)
    \/ \E t \in TickIds : NextJob(t)
    \/ Advance

Spec == Init /\ [][Next]_vars

\* The tracker, the target store and the backoff, called at any time by the
\* platform services and the user interface.
ResetTimes == {now, now + CHECK_INTERVAL_MS}
Remainings == {0, 1}
Jitters == {0, JITTER_MS \div 2, JITTER_MS - 1}
BaseDelays == {BASE_DELAY_MS, MAX_DELAY_MS}
Attempts == 0..MaxAttempt
Updates == {[status |-> "posting"],
            [status |-> "success", platformPostId |-> "remote1"],
            [status |-> "failed", errorCode |-> "PLATFORM_ERROR"],
            [status |-> "skipped"]}

LibNext ==
    \/ \E pf \in Platforms, n \in Remainings, at \in ResetTimes : update(pf, n, at)
    \/ \E pf \in Platforms : canProceed(pf)
    \/ \E pf \in Platforms : getWaitTime(pf)
    \/ \E p \in PostIds : addCrossPostTarget(p)
    \/ \E id \in TargetIds, u \in Updates : updateCrossPostTarget(id, u)
    \/ \E p \in PostIds : deletePost(p)
    \/ \E b \in BaseDelays, n \in Attempts, jt \in Jitters : ComputeDelay(b, n, jt)
    \/ Advance

LibSpec == Init /\ [][LibNext]_vars

\* withRetry around an operation that succeeds or fails in every way
\* parseApiError tells apart.
ThrownValues ==
    {Thrown("TypeError", 0, {"fetch"}),
     Thrown("Response", 401, {}),
     Thrown("Response", 429, {}),
     Thrown("Response", 500, {}),
     Thrown("Response", 404, {}),
     Thrown("Error", 0, {"rate limit"}),
     Thrown("Error", 0, {"auth"}),
     Thrown("Error", 0, {}),
     Thrown("string", 0, {})}
RetryBudgets == 0..WITH_RETRY_MAX

RetryNext ==
    \/ \E n \in RetryBudgets : withRetry(n)
    \/ FnResolves
    \/ \E e \in ThrownValues, jt \in Jitters : FnRejects(e, jt)
    \/ Wake

RetrySpec == Init /\ [][RetryNext]_vars

\* The job store as its callers use it, with due times that are not valid
\* instants among the arguments.
ApiNext ==
    \/ \E p \in PostIds, at \in ScheduleTimes \cup {InvalidDate} : schedulePost(p, at)
    \/ \E id \in JobIds : cancelScheduledPost(id)
    \/ Advance

ApiSpec == Init /\ [][ApiNext]_vars

\* The scheduler next to a platform service that reports a used-up quota to
\* the rate limit tracker: one post with NumTargets targets, every dispatch
\* succeeds.
QuotaNext ==
    \/ \E pf \in ThrottledPlatforms : update(pf, 0, QuotaResetAt)
    \/ \E n \in {NumTargets} : addPost("p1", n)
    \/ schedulePost("p1", now)
    \/ start
    \/ \E h \in TimerHandles : TimerFire(h)
    \/ \E t \in TickIds : DispatchTarget(t, "ok")
    \/ \E t \in TickIds : CheckResults(t)
    \/ \E t \in TickIds : NextJob(t)
    \/ Advance

QuotaSpec == Init /\ [][QuotaNext]_vars

\* the posts and the outcomes that make an execution take each of its paths
FairLists == {Undefined, NumTargets}
FairOutcomes == {"ok", "NETWORK_ERROR"}

\* The scheduler restarted at any time, also long after the jobs have been
\* scheduled: start and stop whenever something happens, jobs of a post
\* with NumTargets targets and of a post the store does not hold.
RestartNext ==
    \/ start
    \/ stop
    \/ \E h \in TimerHandles : TimerFire(h)
    \/ CallerActs /\ \E p \in PostIds : schedulePost(p, now)
    \/ CallerActs /\ \E n \in {NumTargets} : addPost("p1", n)
    \/ \E t \in TickIds, o \in FairOutcomes : DispatchTarget(t, o)
    \/ \E t \in TickIds : CheckResults(t)
    \/ \E t \in TickIds : NextJob(t)
    \/ Advance

RestartSpec == Init /\ [][RestartNext]_vars

\* The event loop runs every resumable invocation: a settled promise resumes
\* at once, a setTimeout callback runs once its macrotask gets its turn.
TickStep(t) ==
    \/ \E o \in Outcomes : DispatchTarget(t, o)
    \/ CheckResults(t)
    \/ CatchBlock(t)
    \/ NextJob(t)

\* The scheduler and its callers, with the posts and the outcomes that make
\* an execution take each of its paths, under an event loop that runs what
\* is due.

FairNext ==
    \/ CallerActs /\ start
    \/ CallerActs /\ stop
    \/ \E h \in TimerHandles : TimerFire(h)
    \/ CallerActs /\ \E p \in PostIds : schedulePost(p, now)
    \/ CallerActs /\ \E id \in JobIds : cancelScheduledPost(id)
    \/ CallerActs /\ \E p \in NewPostIds, n \in FairLists : addPost(p, n)
    \/ CallerActs /\ \E p \in NewPostIds : deletePost(p)
    \/ \E t \in TickIds, o \in FairOutcomes : DispatchTarget(t, o)
    \/ \E t \in TickIds : CheckResults(t)
    \/ \E t \in TickIds : CatchBlock(t)
    \/ \E t \in TickIds : NextJob(t)
    \/ Advance

FairSpec ==
    /\ Init /\ [][FairNext]_vars
    /\ \A t \in TickIds : SF_vars(TickStep(t))
    /\ \A h \in TimerHandles : WF_vars(TimerFire(h))
    /\ WF_vars(Advance)

\* an interval callback that finds due jobs finds an invocation record free
TicksSuffice ==
    (fired # {} /\ duePosts(now) # <<>>) => \E t \in TickIds : ticks[t].pc = "idle"
\* ---- vocabulary of the properties ---------------------------------------

Active(t) == ticks[t].pc # "idle"

\* this step is a call cancelScheduledPost(id)
CancelCall(id) == ret'.jobId = id

\* in this step invocation t applies executeJob to job j
Begins(t, j) ==
    /\ Active(t)'
    /\ CurJob(t)' = j
    /\ ~Active(t) \/ ticks[t].idx # ticks'[t].idx

\* in this step invocation t dispatches target k of job j
Dispatches(t, j, k) ==
    /\ ticks[t].pc = "dispatch"
    /\ CurJob(t) = j
    /\ Len(ticks'[t].results) = k
    /\ Len(ticks[t].results) = k - 1

\* every failure among the results is of a retryable kind
retryable(results) == \A i \in 1..Len(results) : results[i] \in retryableCodes

StatusEdges == {<<"pending", "processing">>, <<"processing", "completed">>,
                <<"processing", "failed">>, <<"processing", "pending">>}

\* ---- C1 -----------------------------------------------------------------
\* C1: in every reachable state every job has retryCount <= maxRetries.
C1_RetryBound == \A j \in created : jobs[j].retryCount <= jobs[j].maxRetries

\* ---- C2 -----------------------------------------------------------------
\* C2: a job's status changes only along pending -> processing,
\* processing -> completed, processing -> failed and processing -> pending,
\* and executeJob is applied only to a job whose status is pending.
C2_StatusEdges ==
    [][\A j \in created :
          /\ jobs'[j].status # jobs[j].status
                => <<jobs[j].status, jobs'[j].status>> \in StatusEdges
          /\ \A t \in TickIds : Begins(t, j) => jobs[j].status = "pending"]_vars

\* ---- C3 -----------------------------------------------------------------
\* C3: at no time are two processScheduledPosts invocations both between
\* their snapshot and the end of their last executeJob.
C3_NoOverlap == Cardinality({t \in TickIds : Active(t)}) <= 1

\* ---- C4 -----------------------------------------------------------------
\* C4: a job of which a target has been delivered is never executed again,
\* and no target of a job is dispatched again once it has been delivered.
C4_AtMostOnce ==
    [][\A t \in TickIds, j \in created :
          /\ Begins(t, j) => delivered[j] = {}
          /\ \A k \in 1..NumTargets :
                Dispatches(t, j, k) => k \notin delivered[j]]_vars

\* ---- C5 -----------------------------------------------------------------
\* C5: cancelScheduledPost on a pending job returns true and removes the job
\* from the store; from then on the job is never among the due jobs of any
\* time, never in getScheduledJobs() and never counted by getPendingCount().
AsOfs == {now, now + CHECK_INTERVAL_MS, now + RETRY_DELAY_MS}
           \cup {jobs[j].scheduledAt : j \in JobIds}

C5_CancelPending ==
    /\ ret.was = "pending" => (ret.value = TRUE /\ ret.jobId \notin store)
    /\ \A id \in cancelled :
          /\ \A asOf \in AsOfs : \A i \in 1..Len(duePosts(asOf)) :
                                     duePosts(asOf)[i] # id
          /\ id \notin getScheduledJobs
          /\ getPendingCount =
                 Cardinality({j \in created \ {id} :
                                 j \in store /\ jobs[j].status = "pending"})

C5_Witness ==
    \E id \in cancelled : id \notin store /\ now > jobs[id].scheduledAt

\* ---- C6 -----------------------------------------------------------------
\* C6: cancelScheduledPost on a job that is processing, completed or failed,
\* or on an id the store does not hold, returns false and changes neither
\* the set of stored jobs nor any job's fields; a processing job still
\* leaves processing (for completed, failed or pending).
C6_CancelNoOp ==
    /\ [][\A id \in JobIds :
             (CancelCall(id) /\ ~(id \in store /\ jobs[id].status = "pending"))
                => (ret'.value = FALSE /\ store' = store /\ jobs' = jobs)]_vars
    /\ \A j \in JobIds :
          (jobs[j].status = "processing") ~> (jobs[j].status # "processing")

C6_Witness ==
    /\ ret.value = FALSE
    /\ ret.jobId \in store
    /\ jobs[ret.jobId].status = "processing"

\* ---- C7 -----------------------------------------------------------------
\* C7: once cancelScheduledPost has returned true for a job, the job is never
\* moved to processing and no execution of it changes the status of a post.
C7_CancelSafe ==
    [][\A j \in cancelled :
          /\ jobs'[j].status # "processing"
          /\ \A t \in TickIds :
                (Active(t)' /\ CurJob(t)' = j /\ ticks'[t] # ticks[t])
                    => posts' = posts]_vars

\* ---- C8 -----------------------------------------------------------------
Returned(t) == ticks[t].pc = "next"

\* in this step executeJob, run by invocation t, decides on the results of
\* its targets and returns
Decides(t) == ticks[t].pc = "results" /\ ticks'[t].pc = "next"

\* a success and a failure among the results
Mixed(results) == anySuccess(results) /\ ~allSuccess(results)

\* C8 (as stated): when the results of a job hold a success and a failure,
\* executeJob returns with the job completed and the post partial, and
\* retryCount and scheduledAt are as they were (no reschedule).
C8_Partial ==
    [][\A t \in TickIds :
          (Decides(t) /\ Mixed(ticks[t].results))
          => LET j == CurJob(t) IN
             /\ jobs'[j].status = "completed"
             /\ posts'[jobs[j].postId].status = "partial"
             /\ jobs'[j].retryCount = jobs[j].retryCount
             /\ jobs'[j].scheduledAt = jobs[j].scheduledAt]_vars

\* C8 (amended): when the results of a job hold a success and a failure,
\* executeJob returns with the job completed, retryCount and scheduledAt as
\* they were, and the post partial if the store still holds it; a post that
\* was deleted during the execution stays deleted.
C8_PartialStored ==
    [][\A t \in TickIds :
          (Decides(t) /\ Mixed(ticks[t].results))
          => LET j == CurJob(t)
                 p == jobs[j].postId
             IN  /\ jobs'[j].status = "completed"
                 /\ posts'[p].status = IF Stored(p) THEN "partial" ELSE "absent"
                 /\ jobs'[j].retryCount = jobs[j].retryCount
                 /\ jobs'[j].scheduledAt = jobs[j].scheduledAt]_vars

C8_Witness ==
    \E t \in TickIds :
        /\ Returned(t)
        /\ Mixed(ticks[t].results)
        /\ jobs[CurJob(t)].status = "completed"
        /\ posts[jobs[CurJob(t)].postId].status = "partial"

\* ---- C9 -----------------------------------------------------------------
\* every target has failed
AllFail(results) == results # <<>> /\ ~anySuccess(results)

\* C9: when every target of a job has failed with a retryable error and the
\* job has retryCount 0 and maxRetries 3, executeJob returns with the job
\* pending, retryCount 1 and a due time later than the time of the failure,
\* and the failure does not change the post's status.
C9_FirstRetry ==
    [][\A t \in TickIds :
          (/\ Decides(t)
           /\ AllFail(ticks[t].results)
           /\ retryable(ticks[t].results)
           /\ jobs[CurJob(t)].retryCount = 0
           /\ jobs[CurJob(t)].maxRetries = 3)
          => LET j == CurJob(t) IN
             /\ jobs'[j].status = "pending"
             /\ jobs'[j].retryCount = 1
             /\ jobs'[j].scheduledAt > now
             /\ posts' = posts]_vars

AllFailed(t) == ticks[t].err = "All platforms failed"

C9_Witness ==
    \E t \in TickIds :
        /\ Returned(t)
        /\ AllFailed(t)
        /\ retryable(ticks[t].results)
        /\ ticks[t].before.retryCount = 0
        /\ jobs[CurJob(t)].status = "pending"
        /\ jobs[CurJob(t)].retryCount = 1
        /\ jobs[CurJob(t)].scheduledAt = now + RETRY_DELAY_MS
        /\ posts[jobs[CurJob(t)].postId].status = "posting"

\* ---- C10 ----------------------------------------------------------------
\* C10: when an execution ends with no target succeeded, the job is
\* rescheduled (pending, retryCount + 1) iff the failure is retryable and the
\* retryCount at the time of the failure is < maxRetries; otherwise the job
\* becomes failed and the post failed.
C10_RetryIff ==
    [][\A t \in TickIds :
          (Decides(t) /\ AllFail(ticks[t].results))
          => LET j == CurJob(t) IN
             IF retryable(ticks[t].results)
                    /\ jobs[j].retryCount < jobs[j].maxRetries
             THEN /\ jobs'[j].status = "pending"
                  /\ jobs'[j].retryCount = jobs[j].retryCount + 1
             ELSE /\ jobs'[j].status = "failed"
                  /\ Stored(jobs[j].postId)
                        => posts'[jobs[j].postId].status = "failed"]_vars

\* ---- C11 ----------------------------------------------------------------
\* C11: when the sole target of a job has failed with a validation error (not
\* retryable), executeJob returns with the job failed, whatever its
\* retryCount and maxRetries are, and the job is not rescheduled.
C11_ValidationFails ==
    [][\A t \in TickIds :
          (Decides(t) /\ ticks[t].results = <<"VALIDATION_ERROR">>)
          => /\ jobs'[CurJob(t)].status = "failed"
             /\ jobs'[CurJob(t)].scheduledAt = jobs[CurJob(t)].scheduledAt]_vars

\* ---- C12 ----------------------------------------------------------------
PostNotFound(t) == ticks[t].err = "Post not found"

\* C12: when the post of a due job is not in the post store, executeJob
\* returns with the job failed, and the job is not rescheduled.
C12_PostNotFoundFails ==
    [][\A t \in TickIds, j \in created :
          (Begins(t, j) /\ PostNotFound(t)')
          => /\ jobs'[j].status = "failed"
             /\ jobs'[j].scheduledAt = jobs[j].scheduledAt]_vars

\* ---- C13 ----------------------------------------------------------------
\* C13: whenever executeJob is applied to a job, the job's due time is not
\* later than the clock, also after the job has been rescheduled.
C13_NotBeforeDue ==
    [][\A t \in TickIds, j \in created :
          Begins(t, j) => jobs[j].scheduledAt <= now]_vars

\* ---- C14 ----------------------------------------------------------------
\* C14: a completed job has a post that is posted or partial and a failed job
\* a post that is failed (for a post the store holds); and when executeJob
\* returns with the job completed or failed, the post is posted iff every
\* target succeeded, partial iff some but not all did, failed iff none did.
C14_PostConsistent ==
    /\ [](\A j \in created :
            Stored(jobs[j].postId)
            => /\ jobs[j].status = "completed"
                      => posts[jobs[j].postId].status \in {"posted", "partial"}
               /\ jobs[j].status = "failed"
                      => posts[jobs[j].postId].status = "failed")
    /\ [][\A t \in TickIds :
             (/\ Decides(t)
              /\ ticks[t].results # <<>>
              /\ Stored(jobs[CurJob(t)].postId)
              /\ jobs'[CurJob(t)].status \in {"completed", "failed"})
             => LET p == jobs[CurJob(t)].postId
                    r == ticks[t].results
                IN  /\ posts'[p].status = "posted" <=> allSuccess(r)
                    /\ posts'[p].status = "partial" <=> Mixed(r)
                    /\ posts'[p].status = "failed" <=> ~anySuccess(r)]_vars

\* ---- C15 ----------------------------------------------------------------
\* C15: executeJob decides the outcome of a job only when every target of the
\* post has contributed its one result, whether the earlier ones failed or
\* not: each dispatch pushes one result, and at the decision, and once
\* executeJob has returned, the results are as many as the targets.
Deciding(t) == ticks[t].pc = "results"

C15_AllTargetsAttempted ==
    /\ [](\A t \in TickIds :
            (Deciding(t) \/ Returned(t))
                => Len(ticks[t].results) = ticks[t].targets)
    /\ [][\A t \in TickIds :
             (ticks[t].pc = "dispatch" /\ ticks'[t] # ticks[t])
             => /\ Len(ticks'[t].results) = Len(ticks[t].results) + 1
                /\ SubSeq(ticks'[t].results, 1, Len(ticks[t].results))
                       = ticks[t].results]_vars

C15_Witness ==
    \E t \in TickIds :
        /\ Returned(t)
        /\ Len(ticks[t].results) = NumTargets
        /\ ticks[t].results[1] # "ok"
        /\ ticks[t].results[NumTargets] = "ok"
        /\ jobs[CurJob(t)].status = "completed"

\* ---- C16 ----------------------------------------------------------------
\* C16: once a stored target has status success or skipped, no call changes
\* its status, its remote id or its error fields for as long as the store
\* holds it.
TerminalTarget(id) == targetStore[id].status \in {"success", "skipped"}

C16_TerminalTargets ==
    [][\A id \in TargetIds :
          (TerminalTarget(id) /\ targetStore'[id] # NoTarget)
              => targetStore'[id] = targetStore[id]]_vars

\* ---- C17 ----------------------------------------------------------------
\* C17: no target is dispatched to its platform while the rate limit tracker
\* reports canProceed = false for that platform.
C17_SkipThrottled ==
    [][\A t \in TickIds, j \in created, k \in 1..NumTargets :
          Dispatches(t, j, k)
              => canProceedResult(limits, platformOf(k), now).value]_vars

\* ---- C18 ----------------------------------------------------------------
\* C18: canProceed(platform) returns true iff the tracker holds no record for
\* the platform, or the time is at or past the record's resetAt, or its
\* remaining is positive; a record at or past its resetAt is removed by the
\* call and in every other case the records are as they were.
C18_CanProceed ==
    out.op = "canProceed"
    => LET rec == out.before[out.platform]
           held == rec # NoLimit
           atOrPast == held /\ out.at >= rec.resetAt
       IN  /\ out.value = (~held \/ atOrPast \/ rec.remaining > 0)
           /\ limits = IF atOrPast
                       THEN [out.before EXCEPT ![out.platform] = NoLimit]
                       ELSE out.before

C18_Witness ==
    /\ out.op = "canProceed"
    /\ out.before[out.platform] # NoLimit
    /\ out.before[out.platform].remaining = 0
    /\ out.before[out.platform].resetAt = out.at
    /\ out.value = TRUE
    /\ limits[out.platform] = NoLimit

\* ---- C19 ----------------------------------------------------------------
\* C19: getWaitTime(platform) is 0 whenever canProceed(platform) would return
\* true at the same instant, and resetAt - now otherwise.
C19_WaitTime ==
    out.op = "getWaitTime"
    => out.value =
          IF canProceedResult(out.before, out.platform, out.at).value
          THEN 0
          ELSE out.before[out.platform].resetAt - out.at

\* ---- C20 ----------------------------------------------------------------
\* C20: the delay after attempt n is at most the cap, at least
\* min(base * 2^n, cap), and the delay after attempt n + 1 is, whatever its
\* jitter, not below the delay after attempt n less that delay's jitter.
C20_DelayBounds ==
    out.op = "delay"
    => /\ out.value <= MAX_DELAY_MS
       /\ out.value >= Min(out.base * 2^out.attempt, MAX_DELAY_MS)
       /\ \A jt \in Jitters :
              delay(out.base, MAX_DELAY_MS, out.attempt + 1, jt)
                  >= out.value - out.jitter

C20_Witness ==
    /\ out.op = "delay"
    /\ out.base = BASE_DELAY_MS
    /\ out.attempt = MaxAttempt
    /\ out.jitter > 0
    /\ out.value = MAX_DELAY_MS

\* ---- C21 ----------------------------------------------------------------
\* C21: the delay of a reschedule grows with the retry count: when a job that
\* has failed at retryCount 1 is rescheduled, its new due time is further from
\* the time of the failure than RETRY_DELAY_MS, the delay of the reschedule
\* at retryCount 0.
\* in this step the catch block of executeJob has counted a failure of job j
\* and taken its else branch: the retry count is one more and still below
\* maxRetries, whatever the status of the job was
Reschedules(j) ==
    /\ jobs'[j].retryCount = jobs[j].retryCount + 1
    /\ jobs'[j].retryCount < jobs'[j].maxRetries

C21_Backoff ==
    [][\A j \in created :
          (Reschedules(j) /\ jobs[j].retryCount = 1)
          => jobs'[j].scheduledAt - now > RETRY_DELAY_MS]_vars

\* ---- C22 ----------------------------------------------------------------
\* in this step the catch block of executeJob, run by invocation t, has run
\* and executeJob returns
Caught(t) == ticks'[t] # ticks[t] /\ Returned(t)' /\ ticks'[t].err # "none"

\* C22: a failure of a job never leaves the dispatch loop: a thrown error is
\* caught by the catch block, which returns normally, reporting a failed job
\* by the post status failed (for a post the store holds), and after a
\* failed execution the invocation goes on to the next job of its snapshot,
\* or ends if there is none.
C22_NoPropagation ==
    [][\A t \in TickIds :
          /\ (ticks[t].pc = "catch" /\ ticks'[t] # ticks[t]) => Caught(t)
          /\ Caught(t)
                => LET j == CurJob(t)' IN
                   /\ jobs'[j].status \in {"pending", "failed"}
                   /\ (jobs'[j].status = "failed" /\ Stored(jobs[j].postId))
                         => posts'[jobs[j].postId].status = "failed"
          /\ (Returned(t) /\ ticks[t].err # "none" /\ ticks'[t] # ticks[t])
                => IF ticks[t].idx < Len(ticks[t].snap)
                   THEN Begins(t, ticks[t].snap[ticks[t].idx + 1])
                   ELSE ~Active(t)']_vars

C22_Witness ==
    \E t \in TickIds :
        /\ Active(t)
        /\ ticks[t].idx = 2
        /\ jobs[ticks[t].snap[1]].lastError # "none"
        /\ jobs[ticks[t].snap[2]].status = "processing"

\* ---- C23 ----------------------------------------------------------------
\* C23: a schedulePost call that fails fails with InvalidSchedule and leaves
\* the job store as it was; a call that creates a job creates exactly one,
\* pending, with retryCount 0, and stores it.
\* in this step a schedulePost call has thrown: the report of a throwing
\* call names the job the call built, so it differs from every earlier one
Throws == out'.op = "schedulePost" /\ out' # out

C23_InvalidSchedule ==
    [][/\ Throws => (out'.threw = "InvalidSchedule"
                       /\ store' = store /\ jobs' = jobs)
       /\ created' # created
             => \E id \in JobIds :
                   /\ created' = created \cup {id}
                   /\ id \notin created
                   /\ id \in store'
                   /\ jobs'[id].status = "pending"
                   /\ jobs'[id].retryCount = 0]_vars

\* ---- C24 ----------------------------------------------------------------
\* C24: an error classified UNKNOWN_ERROR is retryable: withRetry rethrows it
\* only when the retry budget is used up (attempt = maxRetries).
C24_UnknownRetryable ==
    retry.lastError.code = "UNKNOWN_ERROR"
    => /\ retry.lastError.retryable
       /\ retry.pc = "thrown" => retry.attempt = retry.maxRetries

\* ---- C25 ----------------------------------------------------------------
\* C25 (as stated): when start() starts the scheduler, every job that is
\* pending and due is moved to processing during the call.
Starts == ~isRunning /\ isRunning'

\* job j has been moved to processing: it is processing, or, its post not
\* being in the store, its execution has already failed
Taken(j) ==
    \/ jobs'[j].status = "processing"
    \/ /\ ~Stored(jobs[j].postId)
       /\ jobs'[j].retryCount = jobs[j].retryCount + 1
       /\ jobs'[j].lastError = "Post not found"

C25_ImmediateScanAll ==
    [][Starts => \A j \in JobIds : IsDue(j, now) => Taken(j)]_vars

\* C25 (amended): when start() starts the scheduler it arms the timer and,
\* with no time passing, snapshots every job that is pending and due; the
\* first of them is moved to processing during the call and the others are
\* left to the same invocation.
C25_ImmediateScan ==
    [][(Starts /\ duePosts(now) # <<>>)
          => /\ now' = now
             /\ checkInterval' \in timers' \ timers
             /\ \E t \in TickIds :
                   /\ ~Active(t)
                   /\ ticks'[t].snap = duePosts(now)
                   /\ ticks'[t].idx = 1
                   /\ Taken(duePosts(now)[1])]_vars

C25_Witness ==
    /\ now = 0
    /\ isRunning
    /\ \E t \in TickIds :
          /\ Len(ticks[t].snap) = 2
          /\ ticks[t].idx = 1
          /\ ticks[t].results = <<>>
          /\ jobs[ticks[t].snap[1]].status = "processing"
          /\ jobs[ticks[t].snap[2]].status = "pending"

\* ---- C27 ----------------------------------------------------------------
\* C27: between the return of stop() and the next start() no pending job
\* is moved to processing and the status of no post changes, even when a
\* tick was in the middle of its snapshot at the time of stop().
C27_StopQuiesces ==
    [][(~isRunning /\ ~isRunning')
          => /\ \A t \in TickIds, j \in created :
                   Begins(t, j) => jobs[j].status # "pending"
             /\ \A p \in PostIds :
                   (Stored(p) /\ Stored(p)')
                       => posts'[p].status = posts[p].status]_vars

\* ---- C28 ----------------------------------------------------------------
\* C28: at most one polling timer exists and isActive() is true exactly when
\* the timer is armed, after any sequence of start()/stop() calls; while
\* the scheduler is running no step arms another timer and a scan begins
\* only from the timer's callback, never from a repeated start().
OneTimer ==
    /\ Cardinality(timers) <= 1
    /\ isActive = (checkInterval # NULL)
    /\ timers = IF checkInterval # NULL THEN {checkInterval} ELSE {}

\* this step is the callback of an interval timer
Polls == \E h \in fired : timerDue'[h] = timerDue[h] + CHECK_INTERVAL_MS

C28_OneTimer ==
    /\ OneTimer
    /\ [][/\ OneTimer'
          /\ isRunning
                => /\ timers' \subseteq timers
                   /\ \A t \in TickIds :
                         (~Active(t) /\ Active(t)') => Polls]_vars

\* two immediate scans are in flight at time 0 (start, stop, start) and one
\* timer is armed
C28_Witness ==
    /\ now = 0
    /\ isRunning
    /\ Cardinality(timers) = 1
    /\ \A t \in TickIds : Active(t)

\* ---- C29 ----------------------------------------------------------------
\* C29: when executeJob returns with the job completed and the post posted,
\* the post had at least one target and every target was delivered; a job
\* whose post has no target is never reported as posted.
C29_PostedHasTargets ==
    [][\A t \in TickIds :
          (/\ Decides(t)
           /\ jobs'[CurJob(t)].status = "completed"
           /\ posts'[jobs[CurJob(t)].postId].status = "posted")
          => /\ ticks[t].targets > 0
             /\ Len(ticks[t].results) = ticks[t].targets
             /\ allSuccess(ticks[t].results)]_vars

\* ---- C30 ----------------------------------------------------------------
\* C30: withRetry calls fn at most maxRetries + 1 times; it returns at the
\* first success and rethrows at the first non-retryable error with no
\* delay and no call after it; a retryable error is thrown only after
\* maxRetries + 1 calls; onRetry is called once before each re-attempt,
\* with the numbers 1..k in order.
C30_WithRetry ==
    /\ retry.calls <= retry.maxRetries + 1
    /\ retry.onRetry = [i \in 1..Len(retry.onRetry) |-> i]
    /\ Len(retry.onRetry) = retry.waits
    /\ retry.pc = "call"
          => /\ retry.calls = retry.attempt
             /\ Len(retry.onRetry) = retry.calls
             /\ retry.calls > 0 => retry.lastError.retryable
    /\ retry.pc = "sleep" => retry.lastError.retryable
    /\ retry.pc \in {"returned", "thrown"}
          => Len(retry.onRetry) = retry.calls - 1
    /\ (retry.pc = "thrown" /\ retry.lastError.retryable)
          => retry.calls = retry.maxRetries + 1

C30_Witness ==
    /\ retry.pc = "thrown"
    /\ retry.maxRetries = WITH_RETRY_MAX
    /\ retry.lastError.retryable
    /\ retry.calls = WITH_RETRY_MAX + 1
    /\ retry.onRetry = <<1, 2, 3>>

\* ---- C26 ----------------------------------------------------------------
\* C26: every scheduled job that is not cancelled reaches completed or
\* failed while the scheduler ticks.  In a form a finite run refutes: every
\* stored job that is pending is due at some instant, so that a later tick
\* takes it, and a job is not processing when its execution returns.
C26_Progress ==
    /\ [](\A j \in store :
            jobs[j].status = "pending" => \E asOf \in AsOfs : IsDue(j, asOf))
    /\ [][\A t \in TickIds :
             (ticks'[t] # ticks[t] /\ Returned(t)')
                 => jobs'[CurJob(t)'].status # "processing"]_vars

====
